---- MODULE Spec2Model ----
(***************************************************************************)
(* R2Multiplex: a Cloudflare worker that fronts the physical R2 buckets    *)
(* 'aaaa' and 'bbbb' behind the virtual bucket 'multiplex'                 *)
(* (src/src/index.ts, second revision, lines 212-675).                     *)
(*                                                                         *)
(* Strings are sequences of UTF-16 code units, so that slicing, splitting, *)
(* the two string orders of the code (localeCompare and the > operator)    *)
(* and the path handling are computed, not assumed.                        *)
(***************************************************************************)
EXTENDS Integers, Sequences, FiniteSets, TLC

(***************************************************************************)
(* Bounds of the model.                                                    *)
(***************************************************************************)
\* The clock runs over 0..MaxClock (seconds, the resolution of X-Amz-Date).
MaxClock == 1
\* Stand-in for the per-bucket 'max-keys' of 1000 that handleListObjectsV2
\* sends to every bucket (index.ts:453), scaled to the size of the model.
BucketFetchLimit == 2
\* Largest numeric max-keys a client of the model sends.
MaxKeysBound == 2
\* Number of pages after which the paginating client of the model gives up.
MaxPages == 4

(***************************************************************************)
(* Strings.                                                                *)
(***************************************************************************)
EmptyStr == << >>
SlashStr == <<47>>                                  \* "/"
Str_a == <<97>>                                     \* "a"
Str_A == <<65>>                                     \* "A"
Str_B == <<66>>                                     \* "B"
Str_c == <<99>>                                     \* "c"
myBucket == <<109, 117, 108, 116, 105, 112, 108, 101, 120>>   \* "multiplex"
buckets == <<"aaaa", "bbbb">>

BucketSet == {buckets[i] : i \in 1..Len(buckets)}

\* s.slice(n) for 0 <= n
Slice(s, n) == IF n >= Len(s) THEN EmptyStr ELSE SubSeq(s, n + 1, Len(s))

\* s.startsWith(p)
StartsWith(s, p) == Len(p) <= Len(s) /\ SubSeq(s, 1, Len(p)) = p

\* s.indexOf(p), 0-based, -1 when absent
IndexOf(s, p) ==
  LET hits == {i \in 0..(Len(s) - Len(p)) : SubSeq(s, i + 1, i + Len(p)) = p}
  IN  IF hits = {} THEN -1 ELSE CHOOSE i \in hits : \A j \in hits : i <= j

\* s.replace(p, '') with a string pattern: the first occurrence only
ReplaceFirst(s, p) ==
  LET i == IndexOf(s, p)
  IN  IF i = -1 THEN s ELSE SubSeq(s, 1, i) \o Slice(s, i + Len(p))

\* s.replace(/^\/+/, '')
RECURSIVE StripLeadingSlashes(_)
StripLeadingSlashes(s) ==
  IF s # EmptyStr /\ Head(s) = SlashStr[1] THEN StripLeadingSlashes(Tail(s)) ELSE s

\* s.split('/')
RECURSIVE Split(_)
Split(s) ==
  LET i == IndexOf(s, SlashStr)
  IN  IF i = -1 THEN <<s>> ELSE <<SubSeq(s, 1, i)>> \o Split(Slice(s, i + 1))

\* parts.join('/')
RECURSIVE Join(_)
Join(parts) ==
  IF parts = << >> THEN EmptyStr
  ELSE IF Len(parts) = 1 THEN parts[1]
  ELSE parts[1] \o SlashStr \o Join(Tail(parts))

\* a < b for two strings under the > and < operators of JavaScript:
\* lexicographic by code unit, a proper prefix first.  For the ASCII keys
\* of the model this is the byte-wise order of S3.
RECURSIVE CodeUnitLess(_, _)
CodeUnitLess(a, b) ==
  IF b = EmptyStr THEN FALSE
  ELSE IF a = EmptyStr THEN TRUE
  ELSE IF Head(a) # Head(b) THEN Head(a) < Head(b)
  ELSE CodeUnitLess(Tail(a), Tail(b))

\* Collation weights of String.prototype.localeCompare (ICU root collation,
\* the one V8 uses) for "/" and the ASCII letters: a letter's primary weight
\* ignores case, punctuation sorts before letters, and at the tertiary level
\* a lower-case letter sorts before its upper-case form.
IsUpper(ch) == ch >= 65 /\ ch <= 90
Primary(ch) == IF IsUpper(ch) THEN ch + 32 ELSE ch
Tertiary(ch) == IF IsUpper(ch) THEN 1 ELSE 0
PrimaryKey(s) == [i \in 1..Len(s) |-> Primary(s[i])]
TertiaryKey(s) == [i \in 1..Len(s) |-> Tertiary(s[i])]

\* a.localeCompare(b) < 0
LocaleLess(a, b) ==
  \/ CodeUnitLess(PrimaryKey(a), PrimaryKey(b))
  \/ PrimaryKey(a) = PrimaryKey(b) /\ CodeUnitLess(TertiaryKey(a), TertiaryKey(b))

(***************************************************************************)
(* Hash Router.                                                            *)
(***************************************************************************)
\* The first four bytes of SHA-256(UTF-8(key)) for the keys of the model.
Sha256First4(key) ==
  CASE key = EmptyStr -> <<227, 176, 196, 66>>
    [] key = Str_a    -> <<202, 151, 129, 18>>
    [] key = Str_A    -> <<85, 154, 234, 208>>
    [] key = Str_B    -> <<223, 126, 112, 229>>
    [] key = Str_c    -> <<46, 125, 44, 3>>
    [] key = myBucket -> <<181, 236, 52, 212>>
    [] key = SlashStr -> <<138, 94, 218, 178>>
    [] key = <<233>>  -> <<74, 153, 85, 126>>       \* U+00E9, UTF-8 C3 A9
    [] key = <<8364>> -> <<196, 204, 144, 237>>     \* U+20AC, UTF-8 E2 82 AC

\* (h[0] << 24) | (h[1] << 16) | (h[2] << 8) | h[3] as a signed 32-bit value
HashNumber(h) ==
  LET low == h[2] * 65536 + h[3] * 256 + h[4]
  IN  IF h[1] >= 128 THEN (h[1] - 256) * 16777216 + low ELSE h[1] * 16777216 + low

\* Math.abs without its argument negated: the value itself.
Abs_Identity(n) == n

Abs(n) == IF n < 0 THEN -n ELSE n

\* n % m of JavaScript for an integer n and m > 0: the remainder has the sign
\* of the dividend.
JsRemainder(n, m) ==
  LET r == n % m
  IN  IF n < 0 /\ r # 0 THEN r - m ELSE r

\* Math.abs(hashNumber) % buckets.length.  Math.abs works on doubles, so
\* Math.abs(-2^31) is 2^31 exactly; the reduction is computed here in the
\* equal form |hashNumber rem length|, which stays within 32 bits.
AbsRemainder(hashNumber, length) == Abs(JsRemainder(hashNumber, length))

\* arr[i] of JavaScript for a 0-based index: undefined outside the array.
ArrayAt(arr, i) == IF i \in 0..(Len(arr) - 1) THEN arr[i + 1] ELSE "undefined"

\* pickBucket from the digest on: lines 230-234.
BucketIndex(hashArray) == AbsRemainder(HashNumber(hashArray), Len(buckets))
BucketOfDigest(hashArray) == ArrayAt(buckets, BucketIndex(hashArray))

pickBucket(key) == BucketOfDigest(Sha256First4(key))

(***************************************************************************)
(* Requests, as the worker receives them.                                  *)
(***************************************************************************)
Absent == [kind |-> "absent"]
Undefined == "undefined"

\* Configuration (env): the two credential pairs.
CLIENT_ACCESS_KEY == "accesskey"
CLIENT_SECRET_KEY == "secretkey"
R2_KEY == "r2key"
R2_SECRET == "r2secret"

\* The SigV4 signature of a request: a keyed hash of the secret, the signing
\* time (X-Amz-Date), the credential scope and the canonical request.  Two
\* signatures are equal exactly when everything they sign is equal.
SigV4(secret, date, region, service, method, pathname, query, payload) ==
  [secret |-> secret, date |-> date, region |-> region, service |-> service,
   method |-> method, pathname |-> pathname, query |-> query, payload |-> payload]

\* A signature with one hex digit changed.
FlipByte(sig) == [flipped |-> sig]

\* The body the worker reads before verifying (arrayBuffer() for PUT, POST
\* and PATCH with a body; undefined otherwise).
BodyContent(r) ==
  IF r.body # Undefined /\ r.method \in {"PUT", "POST", "PATCH"} THEN r.body ELSE Undefined

\* authHeader.match(/^AWS4-HMAC-SHA256 Credential=([^,]+),\s*SignedHeaders=([^,]+),\s*Signature=(.+)$/)
\* then credential.split('/'): the header of the model carries the scheme,
\* whether the rest has the three comma-separated fields, and the fields.
\* The pattern puts nothing on the text of the credential but that it holds
\* no comma, and nothing on the text of the signature.
parseAuthorizationHeader(authHeader) ==
  IF authHeader.scheme # "AWS4-HMAC-SHA256" \/ ~authHeader.threeFields THEN [threw |-> TRUE]
  ELSE LET credential == authHeader.credential
           part(i) == IF i <= Len(credential) THEN credential[i] ELSE Undefined
       IN  [threw |-> FALSE,
            accessKeyId |-> part(1),
            dateStamp |-> part(2),
            region |-> part(3),
            service |-> part(4),
            terminationString |-> part(5),
            signature |-> authHeader.signature]

\* verifier.sign(httpRequest): SignatureV4.sign is called without a signingDate,
\* so it signs at the time of the call, in the region and service the inbound
\* header declares, with the client-facing secret.
ExpectedSignature(r, parsedAuth, time) ==
  SigV4(CLIENT_SECRET_KEY, time, parsedAuth.region, parsedAuth.service,
        r.method, r.pathname, r.query, BodyContent(r))

\* verifySignature without the comparison of the two signatures.
verifySignature_NoComparison(r, time) ==
  IF r.auth.kind = "none" \/ r.auth.scheme # "AWS4-HMAC-SHA256" THEN FALSE
  ELSE LET parsedAuth == parseAuthorizationHeader(r.auth)
       IN  IF parsedAuth.threw THEN FALSE
           ELSE parsedAuth.accessKeyId = CLIENT_ACCESS_KEY

\* The try block of verifySignature, lines 262-323: it returns a value, or
\* an exception leaves it (parseAuthorizationHeader is the call that throws
\* for the requests of the model).
verifySignatureTry(r, time) ==
  IF r.auth.kind = "none" \/ r.auth.scheme # "AWS4-HMAC-SHA256"
  THEN [threw |-> FALSE, value |-> FALSE]
  ELSE LET parsedAuth == parseAuthorizationHeader(r.auth)
       IN  IF parsedAuth.threw THEN [threw |-> TRUE]
           ELSE IF parsedAuth.accessKeyId # CLIENT_ACCESS_KEY
             THEN [threw |-> FALSE, value |-> FALSE]
           ELSE [threw |-> FALSE,
                 value |-> parsedAuth.signature = ExpectedSignature(r, parsedAuth, time)]

\* A catch clause that throws the exception again.
CatchAll_Rethrow(attempt) == attempt

\* catch (error) { ...; return false; }, lines 324-327
CatchAll(attempt) == IF attempt.threw THEN [threw |-> FALSE, value |-> FALSE] ELSE attempt

\* What the caller of verifySignature observes.
verifySignatureCall(r, time) == CatchAll(verifySignatureTry(r, time))

verifySignature(r, time) == verifySignatureCall(r, time).value

(***************************************************************************)
(* Request dispatcher (fetch), the parts that compute.                     *)
(***************************************************************************)
NoList == [kind |-> "none"]

\* new Response(body, {status}): no status text, no headers of a backend.
Response(origin, status, body) ==
  [origin |-> origin, status |-> status, statusText |-> "", headers |-> {},
   body |-> body, list |-> NoList]

Unauthorized == Response("local", 401, "Unauthorized: Invalid signature")

\* A 401 whose body names the kind of header that was rejected.
Rejection_ByReason(r) == Response("local", 401, r.authKind)

\* fetch, line 590: the response to a request that did not verify.
Rejection(r) == Unauthorized
NoKeySpecified == Response("local", 400, "Bad Request: No key specified")
InvalidContinuationToken == Response("local", 400, "Invalid continuation token")
ListV1NotImplemented == Response("local", 501, "ListObjects v1 not implemented yet")
VersionsNotImplemented == Response("local", 501, "ListObjectVersions not implemented yet")
UploadsNotImplemented == Response("local", 501, "ListMultipartUploads not implemented yet")
\* Promise.all rejected: the handler throws and produces no Response.
Threw == Response("threw", 0, "exception")

\* url.pathname.replace(`/${myBucket}`, '').replace(/^\/+/, '')
pathWithoutBucket(pathname) ==
  StripLeadingSlashes(ReplaceFirst(pathname, SlashStr \o myBucket))

\* The key of an object operation: the path without its leading slash and
\* without a leading virtual-bucket segment.
ExtractKey(pathname) ==
  LET key == Slice(pathname, 1)
      pathParts == Split(key)
  IN  IF Len(pathParts) > 1 /\ pathParts[1] = myBucket
      THEN Join(Tail(pathParts))
      ELSE key

\* What fetch does with a verified request: hand it to the list orchestrator,
\* answer it locally, or forward it as an object operation.
Classify(r) ==
  LET q == r.query
      object == LET key == ExtractKey(r.pathname)
                IN  IF key = EmptyStr
                    THEN [kind |-> "local", resp |-> NoKeySpecified]
                    ELSE [kind |-> "object", key |-> key]
  IN  IF r.method = "GET" THEN
        IF q.listType = "2" THEN [kind |-> "list"]
        ELSE IF q.listType = "1" THEN [kind |-> "local", resp |-> ListV1NotImplemented]
        ELSE IF pathWithoutBucket(r.pathname) = EmptyStr /\ q.listType = "absent"
          THEN [kind |-> "local", resp |-> ListV1NotImplemented]
        ELSE IF q.versions THEN [kind |-> "local", resp |-> VersionsNotImplemented]
        ELSE IF q.uploads THEN [kind |-> "local", resp |-> UploadsNotImplemented]
        ELSE object
      ELSE object

\* req.headers: the headers of a request as it reaches the worker, those the
\* client's SDK sets and those the edge adds on the way.  Header names are in
\* lower case, as Headers.entries() yields them.
InboundHeaders(r) ==
  ("host" :> "multiplex.example.workers.dev")
    @@ ("cf-connecting-ip" :> "203.0.113.7") @@ ("cf-ray" :> "8f2c1a")
    @@ ("x-forwarded-for" :> "203.0.113.7") @@ ("x-real-ip" :> "203.0.113.7")
    @@ ("authorization" :> r.auth) @@ ("x-amz-date" :> r.amzDate)
    @@ ("x-amz-content-sha256" :> "UNSIGNED-PAYLOAD")
    @@ ("user-agent" :> "aws-sdk-js")

\* A filter that lets every header through.
SkippedHeader_None(lowerKey) == FALSE

\* createSignedR2Request, line 383: the headers that are not copied.  The
\* names of the model that start with 'cf-' are listed.
SkippedHeader(lowerKey) ==
  \/ lowerKey \in {"cf-connecting-ip", "cf-ray"}     \* lowerKey.startsWith('cf-')
  \/ lowerKey = "x-forwarded-for"
  \/ lowerKey = "x-real-ip"
  \/ lowerKey = "host"

\* createSignedR2Request, lines 362-422.  `headers` is << >> when the caller
\* passes none.  SignatureV4.sign drops an authorization and an x-amz-date
\* header it is given, sets x-amz-date to the signing time and authorization
\* to the header made with the backend credentials.
createSignedR2Request(method, bucketName, path, queryParams, headers, body, time) ==
  LET copied == {k \in DOMAIN headers : ~SkippedHeader(k)}
      r2Headers == [k \in copied \cup {"host", "x-amz-content-sha256"} |->
                      IF k = "host" THEN "account.r2.cloudflarestorage.com"
                      ELSE IF k = "x-amz-content-sha256" THEN [sha256 |-> body]
                      ELSE headers[k]]
      signature == SigV4(R2_SECRET, time, "auto", "s3", method, path, queryParams, body)
      signed == [k \in DOMAIN r2Headers \cup {"authorization", "x-amz-date"} |->
                   IF k = "authorization"
                   THEN [kind |-> "header", scheme |-> "AWS4-HMAC-SHA256",
                         threeFields |-> TRUE,
                         credential |-> <<R2_KEY, "20261105", "auto", "s3", "aws4_request">>,
                         signature |-> signature]
                   ELSE IF k = "x-amz-date" THEN time
                   ELSE r2Headers[k]]
  IN  [bucket |-> bucketName, method |-> method, path |-> path, query |-> queryParams,
       body |-> body, headers |-> signed, signature |-> signature]

\* An object operation sent to the first bucket, whatever its key.
ObjectUpstream_FirstBucket(r, key, time) ==
  createSignedR2Request(r.method, buckets[1], SlashStr \o key, r.query,
                        InboundHeaders(r), BodyContent(r), time)

\* The upstream request of an object operation: fetch, lines 640-644.
ObjectUpstream(r, key, time) ==
  createSignedR2Request(r.method, pickBucket(key), SlashStr \o key, r.query,
                        InboundHeaders(r), BodyContent(r), time)

(***************************************************************************)
(* List orchestrator (handleListObjectsV2), the parts that compute.        *)
(***************************************************************************)
\* parseInt(params.get('max-keys') || '1000')
DefaultMaxKeys == 1000
ParseMaxKeys(raw) ==
  IF raw.kind = "absent" THEN [nan |-> FALSE, n |-> DefaultMaxKeys]
  ELSE IF raw.kind = "int" THEN [nan |-> FALSE, n |-> raw.n]
  ELSE [nan |-> TRUE, n |-> 0]

\* JSON.parse(atob(continuationToken)) inside try/catch
DecodeToken(token) ==
  IF token.kind \in {"corruptBase64", "notJson"} THEN [threw |-> TRUE]
  ELSE [threw |-> FALSE, value |-> token.value]

\* btoa(JSON.stringify(token)): JSON.stringify leaves the characters of the
\* key as they are, and btoa throws InvalidCharacterError for a string with a
\* code unit above 255.
EncodeToken(bucket, key, position) ==
  IF \E i \in 1..Len(key) : key[i] > 255 THEN [kind |-> "threw"]
  ELSE [kind |-> "json",
        value |-> [t |-> "object", bucket |-> bucket, key |-> key, position |-> position]]

NullToken == [t |-> "null"]

\* if (parsedToken): null and 0 are falsy, every object is truthy
Truthy(parsedToken) ==
  CASE parsedToken.t = "null" -> FALSE
    [] parsedToken.t = "number" -> parsedToken.n # 0
    [] OTHER -> TRUE

\* parsedToken.bucket and parsedToken.key: undefined unless the token has them
TokenBucket(parsedToken) ==
  IF parsedToken.t = "object" THEN parsedToken.bucket ELSE Undefined
TokenHasKey(parsedToken) == parsedToken.t = "object"

\* The start-after a bucket is asked with: the client's start-after, replaced
\* by the token's key for the bucket the token names.
BucketStartAfter(bucketName, q, parsedToken) ==
  IF Truthy(parsedToken) /\ TokenBucket(parsedToken) = bucketName
  THEN [kind |-> "str", s |-> parsedToken.key]
  ELSE q.startAfter

\* The list request sent to one bucket.
ListUpstream(bucketName, q, parsedToken, time) ==
  LET params == [listType |-> "2", maxKeys |-> BucketFetchLimit,
                 startAfter |-> BucketStartAfter(bucketName, q, parsedToken)]
  IN  createSignedR2Request("GET", bucketName, SlashStr, params, << >>, Undefined, time)

\* Insertion of x into a sequence sorted by localeCompare, after its equals.
RECURSIVE InsertLocale(_, _)
InsertLocale(sorted, x) ==
  IF sorted = << >> THEN <<x>>
  ELSE IF LocaleLess(x, Head(sorted)) THEN <<x>> \o sorted
  ELSE <<Head(sorted)>> \o InsertLocale(Tail(sorted), x)

\* allObjects.sort((a, b) => a.Key.localeCompare(b.Key)), a stable sort
RECURSIVE SortByLocaleCompare(_)
SortByLocaleCompare(keys) ==
  IF keys = << >> THEN << >>
  ELSE InsertLocale(SortByLocaleCompare(SubSeq(keys, 1, Len(keys) - 1)), keys[Len(keys)])

\* allObjects.findIndex((obj) => obj.Key > cursor), 0-based, -1 when none
FindIndexGreater(allObjects, cursor) ==
  LET hits == {i \in 1..Len(allObjects) : CodeUnitLess(cursor, allObjects[i])}
  IN  IF hits = {} THEN -1 ELSE (CHOOSE i \in hits : \A j \in hits : i <= j) - 1

\* Array.prototype.slice(start, end) for integers start and end
RelativeIndex(i, len) ==
  IF i < 0 THEN (IF len + i < 0 THEN 0 ELSE len + i) ELSE (IF i > len THEN len ELSE i)
JsSlice(arr, start, end) ==
  LET k == RelativeIndex(start, Len(arr))
      final == RelativeIndex(end, Len(arr))
  IN  IF k >= final THEN << >> ELSE SubSeq(arr, k + 1, final)

RECURSIVE Concat(_)
Concat(seqs) == IF seqs = << >> THEN << >> ELSE Head(seqs) \o Concat(Tail(seqs))

\* The starting position in the merged, sorted entries.
StartIndex(allObjects, q, parsedToken) ==
  LET after(cursorKnown, cursor) ==
        IF ~cursorKnown THEN Len(allObjects)       \* Key > undefined is false
        ELSE LET i == FindIndexGreater(allObjects, cursor)
             IN  IF i = -1 THEN Len(allObjects) ELSE i
  IN  IF Truthy(parsedToken)
      THEN after(TokenHasKey(parsedToken),
                 IF TokenHasKey(parsedToken) THEN parsedToken.key ELSE EmptyStr)
      ELSE IF q.startAfter.kind = "str" THEN after(TRUE, q.startAfter.s)
      ELSE 0

\* Lines 489-576: merge the fragments (in the order of `buckets`), sort,
\* paginate and build the response.
MergeAndPaginate(q, parsedToken, frags) ==
  LET maxKeys == ParseMaxKeys(q.maxKeys)
      allObjects == SortByLocaleCompare(Concat([i \in 1..Len(buckets) |-> frags[buckets[i]].keys]))
      startIndex == StartIndex(allObjects, q, parsedToken)
      resultObjects == IF maxKeys.nan THEN JsSlice(allObjects, startIndex, 0)
                       ELSE JsSlice(allObjects, startIndex, startIndex + maxKeys.n)
      isTruncated == ~maxKeys.nan /\ startIndex + maxKeys.n < Len(allObjects)
      next == IF isTruncated /\ Len(resultObjects) > 0
              THEN LET lastKey == resultObjects[Len(resultObjects)]
                   IN  EncodeToken(pickBucket(lastKey), lastKey, startIndex + Len(resultObjects))
              ELSE Absent
  IN  IF next.kind = "threw" THEN Threw
      ELSE
      [origin |-> "list", status |-> 200, body |-> "ListBucketResult",
       list |-> [kind |-> "result",
                 KeyCount |-> Len(resultObjects),
                 MaxKeys |-> maxKeys,
                 IsTruncated |-> isTruncated,
                 Contents |-> resultObjects,
                 ContinuationToken |-> q.token,
                 NextContinuationToken |-> next]]

\* What fast-xml-parser gives for a repeated element: nothing when there is
\* none, the element itself when there is one, an array when there are more.
ParsedElements(items) ==
  IF items = << >> THEN Absent
  ELSE IF Len(items) = 1 THEN [kind |-> "one", item |-> items[1]]
  ELSE [kind |-> "array", items |-> items]

\* Array.isArray(x) ? x : [x]
AsArray(x) == IF x.kind = "array" THEN x.items ELSE <<x.item>>

\* A set that keeps every value added to it, repeated ones too.
SetAdd_Push(set, x) == Append(set, x)

\* Set.prototype.add: a Set holds a value once, in the order of insertion.
SetAdd(set, x) ==
  IF \E i \in 1..Len(set) : set[i] = x THEN set ELSE Append(set, x)

\* prefixes.forEach((cp) => allCommonPrefixes.add(cp.Prefix))
RECURSIVE AddAll(_, _)
AddAll(set, prefixes) ==
  IF prefixes = << >> THEN set ELSE AddAll(SetAdd(set, Head(prefixes)), Tail(prefixes))

\* Lines 493-505 for the common prefixes: the results are visited in the
\* order of `buckets`.
RECURSIVE CollectCommonPrefixes(_, _)
CollectCommonPrefixes(bucketResults, i) ==
  IF i = 0 THEN << >>
  ELSE LET before == CollectCommonPrefixes(bucketResults, i - 1)
           cps == bucketResults[buckets[i]]
       IN  IF cps.kind = "absent" THEN before ELSE AddAll(before, AsArray(cps))

\* Array.prototype.sort() without a comparator: ascending by code unit.
RECURSIVE InsertCodeUnit(_, _)
InsertCodeUnit(sorted, x) ==
  IF sorted = << >> THEN <<x>>
  ELSE IF CodeUnitLess(x, Head(sorted)) THEN <<x>> \o sorted
  ELSE <<Head(sorted)>> \o InsertCodeUnit(Tail(sorted), x)
RECURSIVE DefaultSort(_)
DefaultSort(arr) ==
  IF arr = << >> THEN << >>
  ELSE InsertCodeUnit(DefaultSort(SubSeq(arr, 1, Len(arr) - 1)), arr[Len(arr)])

\* Lines 551-555: response.CommonPrefixes, set only when there is a prefix.
MergeCommonPrefixes(bucketResults) ==
  LET allCommonPrefixes == CollectCommonPrefixes(bucketResults, Len(buckets))
  IN  IF Len(allCommonPrefixes) > 0
      THEN [kind |-> "array", items |-> DefaultSort(allCommonPrefixes)]
      ELSE Absent

(***************************************************************************)
(* The R2 backend, as far as the worker observes it.                       *)
(***************************************************************************)
NoObject == "NoSuchKey"

\* Sorting a set of keys in the order R2 lists them (UTF-8 binary order).
RECURSIVE SortedByCodeUnit(_)
SortedByCodeUnit(S) ==
  IF S = {} THEN << >>
  ELSE LET m == CHOOSE x \in S : \A y \in S : y = x \/ CodeUnitLess(x, y)
       IN  <<m>> \o SortedByCodeUnit(S \ {m})

\* ListObjectsV2 of one bucket: the keys after start-after, in binary order,
\* at most max-keys of them.
BackendList(contents, params) ==
  LET present == {k \in DOMAIN contents : contents[k] # NoObject}
      after == IF params.startAfter.kind = "str"
               THEN {k \in present : CodeUnitLess(params.startAfter.s, k)}
               ELSE present
      sorted == SortedByCodeUnit(after)
  IN  [state |-> "ok", keys |-> JsSlice(sorted, 0, params.maxKeys)]

Bodies == {"hello", "world"}

\* A response of R2: status, reason phrase, headers and body.
StatusTextOf(status) ==
  CASE status = 200 -> "OK"
    [] status = 204 -> "No Content"
    [] status = 404 -> "Not Found"
    [] status = 405 -> "Method Not Allowed"
    [] OTHER -> "Internal Server Error"
BackendHeaders(status) ==
  {"x-amz-request-id: r2"}
    \cup (IF status \in {200, 204} THEN {} ELSE {"content-type: application/xml"})
BackendResponse(status, body) ==
  [origin |-> "backend", status |-> status, statusText |-> StatusTextOf(status),
   headers |-> BackendHeaders(status), body |-> body, list |-> NoList]

\* One object operation on one bucket: the new contents and the response.
BackendObject(contents, up) ==
  LET key == Slice(up.path, 1)
      reply(status, body) == BackendResponse(status, body)
  IN  IF up.query.uploads \/ up.query.partUpload
        THEN [contents |-> contents, resp |-> reply(200, "MultipartUpload")]
      ELSE IF up.method = "PUT"
        THEN [contents |-> [contents EXCEPT ![key] = up.body], resp |-> reply(200, "")]
      ELSE IF up.method = "GET"
        THEN [contents |-> contents,
              resp |-> IF contents[key] = NoObject THEN reply(404, NoObject)
                       ELSE reply(200, contents[key])]
      ELSE IF up.method = "DELETE"
        THEN [contents |-> [contents EXCEPT ![key] = NoObject], resp |-> reply(204, "")]
      ELSE [contents |-> contents, resp |-> reply(405, "MethodNotAllowed")]

\* A backend that fails answers 500.
BackendFailure == BackendResponse(500, "InternalError")

\* response.ok
IsOk(response) == response.status >= 200 /\ response.status <= 299

\* A relay that answers 502 in place of the backend's error.
Relay_Masked(answer) ==
  IF ~IsOk(answer) THEN Response("backend", 502, "Bad Gateway") ELSE answer

\* fetch, lines 662-673: a response that is not ok is rebuilt from its body
\* text, status, status text and headers; an ok response is returned as it is.
Relay(answer) ==
  IF ~IsOk(answer)
  THEN [origin |-> answer.origin, status |-> answer.status,
        statusText |-> answer.statusText, headers |-> answer.headers,
        body |-> answer.body, list |-> NoList]
  ELSE answer

(***************************************************************************)
(* The clients of the model: what they send.                               *)
(***************************************************************************)
Query(listType, versions, uploads, partUpload, maxKeys, token, startAfter) ==
  [listType |-> listType, versions |-> versions, uploads |-> uploads,
   partUpload |-> partUpload, maxKeys |-> maxKeys, token |-> token,
   startAfter |-> startAfter]

PlainQuery == Query("absent", FALSE, FALSE, FALSE, Absent, Absent, Absent)
ListQuery(maxKeys, token, startAfter) ==
  Query("2", FALSE, FALSE, FALSE, maxKeys, token, startAfter)

IntParam(n) == [kind |-> "int", n |-> n]
StrParam(s) == [kind |-> "str", s |-> s]

\* The keys a client names, and the two ways it addresses them: '/key'
\* (test/index.spec.ts:212) and '/multiplex/key' (forcePathStyle,
\* test/index.spec.ts:18).  The empty key addresses the bucket itself.
StoreKeys == {Str_a, Str_A, Str_B, Str_c, myBucket}
Addresses ==
  {[style |-> "direct", key |-> k] : k \in StoreKeys \cup {EmptyStr}}
    \cup {[style |-> "path", key |-> k] : k \in {Str_a, Str_B, EmptyStr}}

PathOf(address) ==
  IF address.style = "path" THEN SlashStr \o myBucket \o SlashStr \o address.key
  ELSE SlashStr \o address.key

\* The Authorization header an AWS SDK client with the given credentials
\* produces at time `time`.
SignedHeader(accessKey, secret, time, method, pathname, query, body) ==
  [kind |-> "header", scheme |-> "AWS4-HMAC-SHA256", threeFields |-> TRUE,
   credential |-> <<accessKey, "20261105", "auto", "s3", "aws4_request">>,
   signature |-> SigV4(secret, time, "auto", "s3", method, pathname, query,
                       IF body # Undefined /\ method \in {"PUT", "POST", "PATCH"}
                       THEN body ELSE Undefined)]

AuthKinds == {"valid", "none", "basic", "garbled", "wrongkey", "wrongsecret", "flipped"}

AuthHeader(kind, time, method, pathname, query, body) ==
  LET good == SignedHeader(CLIENT_ACCESS_KEY, CLIENT_SECRET_KEY, time, method, pathname, query, body)
  IN  CASE kind = "valid" -> good
        [] kind = "none" -> [kind |-> "none"]
        [] kind = "basic" -> [good EXCEPT !.scheme = "Basic"]
        [] kind = "garbled" -> [good EXCEPT !.threeFields = FALSE]
        [] kind = "wrongkey" ->
             SignedHeader("otherkey", "othersecret", time, method, pathname, query, body)
        [] kind = "wrongsecret" ->
             SignedHeader(CLIENT_ACCESS_KEY, "guessedsecret", time, method, pathname, query, body)
        [] kind = "flipped" -> [good EXCEPT !.signature = FlipByte(good.signature)]

Request(authKind, time, method, address, query, body) ==
  [method |-> method, pathname |-> PathOf(address), query |-> query, body |-> body,
   amzDate |-> time, clientKey |-> address.key, authKind |-> authKind,
   auth |-> AuthHeader(authKind, time, method, PathOf(address), query, body)]

\* The bodies the clients of the model write under a key.
PutBodies(key) == IF key = Str_a THEN Bodies ELSE {"hello"}

\* Plain object operations.
ObjectRequests(time) ==
  {Request("valid", time, m, a, PlainQuery, Undefined) : m \in {"GET", "DELETE"}, a \in Addresses}
    \cup UNION {{Request("valid", time, "PUT", a, PlainQuery, b) : b \in PutBodies(a.key)} :
                 a \in Addresses}

\* Requests that carry the query of a list variant or of a multipart upload.
VariantQueries ==
  {Query("1", FALSE, FALSE, FALSE, Absent, Absent, Absent),
   Query("absent", TRUE, FALSE, FALSE, Absent, Absent, Absent),
   Query("absent", FALSE, TRUE, FALSE, Absent, Absent, Absent),
   Query("absent", FALSE, FALSE, TRUE, Absent, Absent, Absent),
   Query("2", TRUE, FALSE, FALSE, Absent, Absent, Absent)}
VariantAddresses ==
  {[style |-> "direct", key |-> Str_a], [style |-> "direct", key |-> EmptyStr]}
VariantRequests(time) ==
  {Request("valid", time, m, a, q, IF m = "GET" THEN Undefined ELSE "hello") :
     m \in {"GET", "PUT", "POST"}, a \in VariantAddresses, q \in VariantQueries}

\* Continuation tokens no orchestrator produced.
ForeignTokens ==
  {[kind |-> "corruptBase64"], [kind |-> "notJson"],
   [kind |-> "json", value |-> NullToken],
   [kind |-> "json", value |-> [t |-> "number", n |-> 5]],
   [kind |-> "json", value |-> [t |-> "emptyObject"]]}

MaxKeysParams == {Absent} \cup {IntParam(n) : n \in 1..MaxKeysBound}

\* max-keys=0, max-keys=-1 and a max-keys that is no number.
OddMaxKeysParams == {IntParam(0), IntParam(-1), [kind |-> "text"]}

BucketAddress == [style |-> "direct", key |-> EmptyStr]

\* ListObjectsV2 requests outside a pagination session.
ListRequests(time) ==
  {Request("valid", time, "GET", BucketAddress, ListQuery(mk, Absent, StrParam(Str_A)), Undefined) :
     mk \in MaxKeysParams}
    \cup {Request("valid", time, "GET", BucketAddress, ListQuery(mk, t, Absent), Undefined) :
            mk \in {Absent, IntParam(1)}, t \in ForeignTokens}
    \cup {Request("valid", time, "GET", BucketAddress, ListQuery(mk, Absent, Absent), Undefined) :
            mk \in OddMaxKeysParams}

\* Requests whose Authorization header does not verify.
BadAuthRequests(time) ==
  {Request(k, time, "GET", a, PlainQuery, Undefined) :
     k \in AuthKinds \ {"valid"}, a \in {[style |-> "direct", key |-> Str_a], BucketAddress}}
    \cup {Request(k, time, "PUT", [style |-> "direct", key |-> Str_a], PlainQuery, "hello") :
            k \in AuthKinds \ {"valid"}}
    \cup {Request(k, time, "GET", BucketAddress, ListQuery(Absent, Absent, Absent), Undefined) :
            k \in AuthKinds \ {"valid"}}

Requests(time) ==
  ObjectRequests(time) \cup VariantRequests(time) \cup ListRequests(time)
    \cup BadAuthRequests(time)

\* The request of a pagination session: the loop of test/index.spec.ts:122-144.
SessionRequest(time, maxKeys, token) ==
  Request("valid", time, "GET", BucketAddress, ListQuery(maxKeys, token, Absent), Undefined)

(***************************************************************************)
(* State.                                                                  *)
(***************************************************************************)
VARIABLES
  store,             \* the contents of every physical bucket: key -> body
  now,               \* the clock, in seconds
  pc,                \* where the worker is with the request in flight
  req,               \* the request in flight
  isValidSignature,  \* what verifySignature returned
  verifiedAt,        \* when it ran
  upstream,          \* the upstream requests issued for the request in flight
  fragments,         \* per bucket, the answer received or awaited
  resp,              \* the response produced
  lastPut,           \* per client key, the body of its last successful PUT
  session,           \* the paginating client: pages and tokens so far
  unit               \* one function of the worker applied on its own: input and result

vars == <<store, now, pc, req, isValidSignature, verifiedAt, upstream, fragments,
          resp, lastPut, session, unit>>

NoRequest == [method |-> "none"]
NoResponse == Response("none", 0, "")
NoFragments == [b \in BucketSet |-> [state |-> "none", keys |-> << >>]]
NoSession == [state |-> "none", maxKeys |-> Absent, token |-> Absent,
              pages |-> << >>, tokens |-> << >>, truncated |-> << >>]
Unknown == "unknown"
NoUnit == [op |-> "none"]

Init ==
  /\ store = [b \in BucketSet |-> [k \in StoreKeys |-> NoObject]]
  /\ now = 0
  /\ pc = "idle"
  /\ req = NoRequest
  /\ isValidSignature = FALSE
  /\ verifiedAt = 0
  /\ upstream = << >>
  /\ fragments = NoFragments
  /\ resp = NoResponse
  /\ lastPut = [k \in StoreKeys |-> Unknown]
  /\ session = NoSession
  /\ unit = NoUnit

(***************************************************************************)
(* Actions.                                                                *)
(***************************************************************************)
\* A second passes.
Tick ==
  /\ now < MaxClock
  /\ now' = now + 1
  /\ UNCHANGED <<store, pc, req, isValidSignature, verifiedAt, upstream, fragments,
                 resp, lastPut, session, unit>>

Accept(r) ==
  /\ pc' = "verify"
  /\ req' = r
  /\ isValidSignature' = FALSE
  /\ verifiedAt' = 0
  /\ upstream' = << >>
  /\ fragments' = NoFragments
  /\ resp' = NoResponse
  /\ UNCHANGED <<store, now, lastPut, unit>>

\* A client signs a request now and sends it; the worker's fetch starts.
ClientSend ==
  /\ pc = "idle"
  /\ session.state # "open"
  /\ \E r \in Requests(now) : Accept(r)
  /\ session' = NoSession

\* The paginating client lists the first page.
ClientStartsListing ==
  /\ pc = "idle"
  /\ session.state # "open"
  /\ \E mk \in MaxKeysParams :
       /\ Accept(SessionRequest(now, mk, Absent))
       /\ session' = [NoSession EXCEPT !.state = "open", !.maxKeys = mk]

\* ... and asks for the next page with the token of the last one.
ClientListsNextPage ==
  /\ pc = "idle"
  /\ session.state = "open"
  /\ Accept(SessionRequest(now, session.maxKeys, session.token))
  /\ UNCHANGED session

\* fetch, lines 580-591: verifySignature, and 401 if it returns false.
\* fetch going on to classify whatever verifySignature returned.
AfterVerify_Unchecked(valid) == "dispatch"

AfterVerify(valid) == IF valid THEN "dispatch" ELSE "done"
Verify ==
  /\ pc = "verify"
  /\ LET valid == verifySignature(req, now)
     IN  /\ isValidSignature' = valid
         /\ verifiedAt' = now
         /\ pc' = AfterVerify(valid)
         /\ resp' = IF valid THEN resp ELSE Rejection(req)
  /\ UNCHANGED <<store, now, req, upstream, fragments, lastPut, session, unit>>

\* fetch, lines 593-654, for a request that is answered locally or forwarded
\* as an object operation.
Dispatch ==
  /\ pc = "dispatch"
  /\ LET c == Classify(req)
     IN  /\ c.kind # "list"
         /\ IF c.kind = "local"
            THEN /\ resp' = c.resp
                 /\ pc' = "done"
                 /\ UNCHANGED upstream
            ELSE /\ upstream' = Append(upstream, ObjectUpstream(req, c.key, now))
                 /\ pc' = "awaitObject"
                 /\ UNCHANGED resp
  /\ UNCHANGED <<store, now, req, isValidSignature, verifiedAt, fragments, lastPut, session,
                 unit>>

\* A fan-out that asks the first bucket a second time.
ListFanOut_Retry(q, parsedToken, time) ==
  [i \in 1..(Len(buckets) + 1) |->
     ListUpstream(buckets[IF i > Len(buckets) THEN 1 ELSE i], q, parsedToken, time)]

\* The list requests of one call, in the order of `buckets`.
ListFanOut(q, parsedToken, time) ==
  [i \in 1..Len(buckets) |-> ListUpstream(buckets[i], q, parsedToken, time)]

\* handleListObjectsV2, lines 425-465: decode the token, then send one list
\* request to every bucket.
DispatchList ==
  /\ pc = "dispatch"
  /\ Classify(req).kind = "list"
  /\ LET decoded == IF req.query.token.kind = "absent"
                    THEN [threw |-> FALSE, value |-> NullToken]
                    ELSE DecodeToken(req.query.token)
     IN  IF decoded.threw
         THEN /\ resp' = InvalidContinuationToken
              /\ pc' = "done"
              /\ UNCHANGED <<upstream, fragments>>
         ELSE /\ upstream' = upstream \o ListFanOut(req.query, decoded.value, now)
              /\ fragments' = [b \in BucketSet |-> [state |-> "pending", keys |-> << >>]]
              /\ pc' = "awaitList"
              /\ UNCHANGED resp
  /\ UNCHANGED <<store, now, req, isValidSignature, verifiedAt, lastPut, session, unit>>

UpstreamTo(b) == CHOOSE i \in 1..Len(upstream) : upstream[i].bucket = b

\* A bucket answers its list request; a failed answer rejects Promise.all.
BackendListReply ==
  /\ pc = "awaitList"
  /\ \E b \in BucketSet, ok \in BOOLEAN :
       /\ fragments[b].state = "pending"
       /\ IF ok
          THEN /\ fragments' = [fragments EXCEPT
                                  ![b] = BackendList(store[b], upstream[UpstreamTo(b)].query)]
               /\ UNCHANGED <<pc, resp>>
          ELSE /\ fragments' = [fragments EXCEPT ![b] = [state |-> "failed", keys |-> << >>]]
               /\ resp' = Threw
               /\ pc' = "done"
  /\ UNCHANGED <<store, now, req, isValidSignature, verifiedAt, upstream, lastPut, session,
                 unit>>

\* Promise.all resolving although a fragment is still awaited.
AllFulfilled_AnyOne(frags) == \E b \in BucketSet : frags[b].state = "ok"

\* await Promise.all(bucketRequests) resolves: every bucket has answered ok.
AllFulfilled(frags) == \A b \in BucketSet : frags[b].state = "ok"

\* handleListObjectsV2, lines 487-576, once every fragment has arrived.
ListComplete ==
  /\ pc = "awaitList"
  /\ AllFulfilled(fragments)
  /\ LET parsedToken == IF req.query.token.kind = "absent" THEN NullToken
                        ELSE DecodeToken(req.query.token).value
     IN  resp' = MergeAndPaginate(req.query, parsedToken, fragments)
  /\ pc' = "done"
  /\ UNCHANGED <<store, now, req, isValidSignature, verifiedAt, upstream, fragments,
                 lastPut, session, unit>>

\* The bucket of an object operation answers; fetch relays the answer.
BackendObjectReply ==
  /\ pc = "awaitObject"
  /\ \E ok \in BOOLEAN :
       LET up == upstream[Len(upstream)]
           done == BackendObject(store[up.bucket], up)
           answer == IF ok THEN done.resp ELSE BackendFailure
       IN  /\ store' = IF ok THEN [store EXCEPT ![up.bucket] = done.contents] ELSE store
           /\ fragments' = [fragments EXCEPT
                              ![up.bucket] = [state |-> "answered", keys |-> << >>,
                                              answer |-> answer]]
           /\ resp' = Relay(answer)
  /\ pc' = "done"
  /\ UNCHANGED <<now, req, isValidSignature, verifiedAt, upstream, lastPut, session, unit>>

\* What the client knows of a key after the response to its request.
Learned(r, rsp, known) ==
  IF r.clientKey \notin StoreKeys \/ r.query.uploads \/ r.query.partUpload THEN known
  ELSE IF r.method = "PUT" /\ rsp.origin = "backend" /\ rsp.status = 200
    THEN [known EXCEPT ![r.clientKey] = r.body]
  ELSE IF r.method = "DELETE" /\ rsp.origin = "backend" /\ rsp.status = 204
    THEN [known EXCEPT ![r.clientKey] = Unknown]
  ELSE known

\* The paginating client after a page: test/index.spec.ts:130-144.
Paged(s, rsp) ==
  IF s.state # "open" THEN s
  ELSE IF rsp.origin # "list" THEN [s EXCEPT !.state = "failed"]
  ELSE LET next == rsp.list.NextContinuationToken
           s2 == [s EXCEPT !.pages = Append(@, rsp.list.Contents),
                           !.tokens = Append(@, next),
                           !.truncated = Append(@, rsp.list.IsTruncated),
                           !.token = next]
       IN  IF next.kind = "absent" THEN [s2 EXCEPT !.state = "complete"]
           ELSE IF Len(s2.pages) >= MaxPages THEN [s2 EXCEPT !.state = "gaveUp"]
           ELSE s2

\* The client receives the response.
ClientReceive ==
  /\ pc = "done"
  /\ pc' = "idle"
  /\ lastPut' = Learned(req, resp, lastPut)
  /\ session' = Paged(session, resp)
  /\ req' = NoRequest
  /\ resp' = NoResponse
  /\ upstream' = << >>
  /\ fragments' = NoFragments
  /\ isValidSignature' = FALSE
  /\ verifiedAt' = 0
  /\ UNCHANGED <<store, now, unit>>

Next ==
  \/ Tick
  \/ ClientSend
  \/ ClientStartsListing
  \/ ClientListsNextPage
  \/ Verify
  \/ Dispatch
  \/ DispatchList
  \/ BackendListReply
  \/ ListComplete
  \/ BackendObjectReply
  \/ ClientReceive

Spec == Init /\ [][Next]_vars

(***************************************************************************)
(* The functions of the worker applied on their own, to inputs no request  *)
(* of the clients above produces: one application in a behaviour.  The     *)
(* worker stays idle.                                                      *)
(***************************************************************************)
workerVars == <<store, now, pc, req, isValidSignature, verifiedAt, upstream, fragments,
                resp, lastPut, session>>

\* Digests: every combination of the extreme and the middle byte values in
\* the four leading bytes, and the digests of the keys of the model.
DigestBytes == {0, 1, 127, 128, 255}
RoutedKeys == StoreKeys \cup {EmptyStr, SlashStr}
Digests ==
  {<<b1, b2, b3, b4>> : b1 \in DigestBytes, b2 \in DigestBytes, b3 \in DigestBytes,
                        b4 \in DigestBytes}
    \cup {Sha256First4(k) : k \in RoutedKeys}

\* pickBucket on a key with the given digest.
ApplyPickBucket ==
  /\ unit = NoUnit
  /\ \E hashArray \in Digests :
       unit' = [op |-> "pickBucket", hashArray |-> hashArray,
                hashNumber |-> HashNumber(hashArray),
                index |-> BucketIndex(hashArray),
                bucket |-> BucketOfDigest(hashArray)]
  /\ UNCHANGED workerVars

\* The common prefixes a bucket may report: "B/", "a/" and "c/".
PrefixPool == {Str_B \o SlashStr, Str_a \o SlashStr, Str_c \o SlashStr}

\* The CommonPrefixes of one bucket's answer, as parsed: distinct and in
\* binary order.
BucketCommonPrefixes == {ParsedElements(SortedByCodeUnit(S)) : S \in SUBSET PrefixPool}

\* The merge of the common prefixes of the buckets' answers.
ApplyMergeCommonPrefixes ==
  /\ unit = NoUnit
  /\ \E bucketResults \in [BucketSet -> BucketCommonPrefixes] :
       unit' = [op |-> "mergeCommonPrefixes", bucketResults |-> bucketResults,
                CommonPrefixes |-> MergeCommonPrefixes(bucketResults)]
  /\ UNCHANGED workerVars

Clock == 0..MaxClock

\* verifySignature on a request signed at one time and verified at another.
ApplyVerifySignature ==
  /\ unit = NoUnit
  /\ \E signedAt \in Clock, time \in Clock :
       \E r \in Requests(signedAt) :
         /\ signedAt <= time
         /\ unit' = [op |-> "verifySignature", request |-> r, time |-> time,
                     attempt |-> verifySignatureTry(r, time),
                     outcome |-> verifySignatureCall(r, time)]
  /\ UNCHANGED workerVars

\* fetch, lines 588-591, on two requests that do not verify.
ApplyRejectTwo ==
  /\ unit = NoUnit
  /\ \E time \in Clock :
       \E r1 \in BadAuthRequests(time), r2 \in BadAuthRequests(time) :
         /\ ~verifySignature(r1, time) /\ ~verifySignature(r2, time)
         /\ unit' = [op |-> "rejectTwo", first |-> r1, second |-> r2, time |-> time,
                     firstResp |-> Rejection(r1), secondResp |-> Rejection(r2)]
  /\ UNCHANGED workerVars

\* parseAuthorizationHeader on headers inside and outside the grammar: the
\* credential scope has one, three, five or six parts and ends in
\* 'aws4_request' or not, and the signature is hexadecimal or not.
ApplyParseAuthorizationHeader ==
  /\ unit = NoUnit
  /\ \E scheme \in {"AWS4-HMAC-SHA256", "Basic"}, threeFields \in BOOLEAN,
        credential \in {<<CLIENT_ACCESS_KEY>>,
                        <<CLIENT_ACCESS_KEY, "20261105", "auto">>,
                        <<CLIENT_ACCESS_KEY, "20261105", "auto", "s3", "aws4_request">>,
                        <<CLIENT_ACCESS_KEY, "20261105", "auto", "s3", "aws4_response">>,
                        <<CLIENT_ACCESS_KEY, "20261105", "auto", "s3", "aws4_request", "x">>},
        signature \in {[hex |-> TRUE, text |-> "3fa9c0"], [hex |-> FALSE, text |-> "not hex!"]} :
       LET authHeader == [kind |-> "header", scheme |-> scheme, threeFields |-> threeFields,
                          credential |-> credential, signature |-> signature]
       IN  unit' = [op |-> "parseAuthorizationHeader", authHeader |-> authHeader,
                    parsed |-> parseAuthorizationHeader(authHeader)]
  /\ UNCHANGED workerVars

\* The token of a page that ends at `key`, built as in lines 527-534 and
\* decoded as the next call decodes it, lines 439-445.  The keys are those of
\* the model and two keys R2 stores as well: U+00E9 and U+20AC.
ApplyTokenRoundTrip ==
  /\ unit = NoUnit
  /\ \E key \in StoreKeys \cup {<<233>>, <<8364>>}, position \in 1..MaxKeysBound :
       LET token == EncodeToken(pickBucket(key), key, position)
       IN  unit' = [op |-> "tokenRoundTrip", key |-> key, position |-> position,
                    bucket |-> pickBucket(key), token |-> token,
                    decoded |-> IF token.kind = "threw" THEN [threw |-> TRUE]
                                ELSE DecodeToken(token)]
  /\ UNCHANGED workerVars

\* Results kept in one place for all the calls in progress.
RecordFragment_Shared(calls, i, b, fragment) ==
  [j \in DOMAIN calls |-> [calls[j] EXCEPT !.fragments[b] = fragment]]

\* Lines 448-487: bucketRequests and bucketResults are locals of the call, and
\* Promise.all puts the result of a bucket at the index of its request.
RecordFragment(calls, i, b, fragment) ==
  [calls EXCEPT ![i].fragments[b] = fragment]

\* Two ListObjectsV2 calls in progress at once over the same buckets, whose
\* contents stay as they are: each call decodes its token and sends its
\* requests (lines 425-465).
ApplyStartLists ==
  /\ unit = NoUnit
  /\ \E keys \in {{Str_a, Str_B}, {Str_a, Str_A, Str_B, Str_c}, {Str_A, Str_c, myBucket}},
        q1, q2 \in {ListQuery(Absent, Absent, Absent),
                    ListQuery(IntParam(1), Absent, Absent),
                    ListQuery(Absent, Absent, StrParam(Str_A)),
                    ListQuery(IntParam(1), EncodeToken("bbbb", Str_B, 1), Absent)} :
       LET call(q) == [query |-> q,
                       parsedToken |-> IF q.token.kind = "absent" THEN NullToken
                                       ELSE DecodeToken(q.token).value,
                       fragments |-> [b \in BucketSet |-> [state |-> "pending", keys |-> << >>]],
                       resp |-> NoResponse]
       IN  unit' = [op |-> "lists",
                    contents |-> [b \in BucketSet |->
                                    [k \in StoreKeys |->
                                       IF k \in keys /\ pickBucket(k) = b THEN "hello"
                                       ELSE NoObject]],
                    calls |-> <<call(q1), call(q2)>>]
  /\ UNCHANGED workerVars

\* A bucket answers one of the calls, in any order (lines 465-484).
ApplyListReply ==
  /\ unit.op = "lists"
  /\ \E i \in DOMAIN unit.calls, b \in BucketSet, ok \in BOOLEAN :
       LET c == unit.calls[i]
       IN  /\ c.resp = NoResponse
           /\ c.fragments[b].state = "pending"
           /\ unit' = IF ok
                THEN [unit EXCEPT !.calls = RecordFragment(unit.calls, i, b,
                        BackendList(unit.contents[b],
                                    ListUpstream(b, c.query, c.parsedToken, now).query))]
                ELSE [unit EXCEPT !.calls[i].fragments[b] = [state |-> "failed", keys |-> << >>],
                                  !.calls[i].resp = Threw]
  /\ UNCHANGED workerVars

\* A call has all its fragments: it merges them and answers (lines 487-576).
ApplyListComplete ==
  /\ unit.op = "lists"
  /\ \E i \in DOMAIN unit.calls :
       LET c == unit.calls[i]
       IN  /\ c.resp = NoResponse
           /\ AllFulfilled(c.fragments)
           /\ unit' = [unit EXCEPT !.calls[i].resp =
                         MergeAndPaginate(c.query, c.parsedToken, c.fragments)]
  /\ UNCHANGED workerVars

UnitNext ==
  \/ ApplyStartLists
  \/ ApplyListReply
  \/ ApplyListComplete
  \/ ApplyParseAuthorizationHeader
  \/ ApplyTokenRoundTrip
  \/ ApplyPickBucket
  \/ ApplyMergeCommonPrefixes
  \/ ApplyVerifySignature
  \/ ApplyRejectTwo

UnitSpec == Init /\ [][UnitNext]_vars

(***************************************************************************)
(* Properties.                                                             *)
(***************************************************************************)
Verified == pc \in {"dispatch", "awaitObject", "awaitList", "done"}

\* The ways an Authorization header fails, read off the request itself.
AuthMissing(r) == r.auth.kind = "none"
AuthNotSigV4(r) == r.auth.kind = "header" /\ r.auth.scheme # "AWS4-HMAC-SHA256"
AuthMalformed(r) == r.auth.kind = "header" /\ ~r.auth.threeFields
AuthOtherKey(r) == r.auth.kind = "header" /\ r.auth.credential[1] # CLIENT_ACCESS_KEY
AuthSignatureMismatch(r, time) ==
  /\ r.auth.kind = "header"
  /\ r.auth.signature # SigV4(CLIENT_SECRET_KEY, time, r.auth.credential[3],
                              r.auth.credential[4], r.method, r.pathname, r.query,
                              BodyContent(r))
AuthFails(r, time) ==
  \/ AuthMissing(r) \/ AuthNotSigV4(r) \/ AuthMalformed(r) \/ AuthOtherKey(r)
  \/ AuthSignatureMismatch(r, time)

LocalResponses ==
  {Unauthorized, NoKeySpecified, InvalidContinuationToken, ListV1NotImplemented,
   VersionsNotImplemented, UploadsNotImplemented}

\* C2: no upstream request is issued before verifySignature has returned true,
\* and a locally generated response (401, 400, 501) is returned with no
\* upstream request issued for its request.
C2_VerifyBeforeUpstream ==
  /\ upstream # << >> => (Verified /\ isValidSignature)
  /\ pc = "verify" => upstream = << >>
  /\ resp \in LocalResponses => upstream = << >>

C2_Witness ==
  /\ pc = "awaitList" /\ Len(upstream) = Len(buckets) /\ isValidSignature

\* The keys stored in any physical bucket.
StoredKeys == {k \in StoreKeys : \E b \in BucketSet : store[b][k] # NoObject}

PlainGet(r) == r.method = "GET" /\ r.query = PlainQuery /\ r.clientKey \in StoreKeys

\* C3: after a PUT of key k with body b has succeeded, a later validly signed
\* GET of k returns b, for every key k.
C3_ReadYourWrites ==
  (/\ pc = "done" /\ isValidSignature /\ PlainGet(req)
   /\ lastPut[req.clientKey] \in Bodies
   /\ resp # BackendFailure)
    => (resp.status = 200 /\ resp.body = lastPut[req.clientKey])

Listed(s) == Concat(s.pages)
Occurrences(seq, x) == Cardinality({i \in 1..Len(seq) : seq[i] = x})
SessionMaxKeys(s) == ParseMaxKeys(s.maxKeys).n

\* C4: a listing paginated to its end returns every stored key exactly once,
\* every page but the last holding max-keys keys.
C4_ListingComplete ==
  session.state = "complete" =>
    /\ \A k \in StoredKeys : Occurrences(Listed(session), k) = 1
    /\ \A i \in 1..Len(Listed(session)) : Listed(session)[i] \in StoredKeys
    /\ \A i \in 1..(Len(session.pages) - 1) :
         Len(session.pages[i]) = SessionMaxKeys(session)

\* C5: pagination ends: with the contents fixed and max-keys >= 1, a client
\* following NextContinuationToken is never handed a token it was handed
\* before, so the sequence of tokens cannot cycle and the listing terminates.
C5_NoTokenRecurs ==
  (session.state # "idle" /\ SessionMaxKeys(session) >= 1) =>
    \A i, j \in 1..Len(session.tokens) :
      (i < j /\ session.tokens[i].kind # "absent") => session.tokens[i] # session.tokens[j]

\* The cursor of a list request: the token's key, else start-after.
HasCursor(q) == q.token.kind = "json" \/ q.startAfter.kind = "str"
Cursor(q) == IF q.token.kind = "json" THEN q.token.value.key ELSE q.startAfter.s
OwnToken(q) == q.token.kind = "absent" \/ (q.token.kind = "json" /\ q.token.value.t = "object")

ListAnswered == pc = "done" /\ resp.origin = "list"

\* Some physical bucket holds more keys than one upstream listing returns.
BucketOverFetchLimit ==
  \E b \in BucketSet :
    Cardinality({k \in StoreKeys : store[b][k] # NoObject}) > BucketFetchLimit

\* max-keys is absent or a number from 1 on.
UsualMaxKeys(q) == ~ParseMaxKeys(q.maxKeys).nan /\ ParseMaxKeys(q.maxKeys).n >= 1

\* C6: IsTruncated is true exactly when some stored key sorts after the last
\* key of the page (after the cursor, when the page is empty), also when one
\* bucket holds more keys than the per-bucket fetch limit.
C6_TruncatedIffMore ==
  (ListAnswered /\ OwnToken(req.query) /\ UsualMaxKeys(req.query) /\ BucketOverFetchLimit) =>
    LET page == resp.list.Contents
        more == IF page # << >>
                THEN \E k \in StoredKeys : CodeUnitLess(page[Len(page)], k)
                ELSE IF HasCursor(req.query)
                THEN \E k \in StoredKeys : CodeUnitLess(Cursor(req.query), k)
                ELSE StoredKeys # {}
    IN  resp.list.IsTruncated <=> more

\* C7: the Contents of a ListObjectsV2 response are in ascending byte-wise
\* order of their keys.
C7_ByteOrder ==
  (ListAnswered /\ OwnToken(req.query)) =>
    \A i \in 1..(Len(resp.list.Contents) - 1) :
      CodeUnitLess(resp.list.Contents[i], resp.list.Contents[i + 1])

ObjectOps == {i \in 1..Len(upstream) : upstream[i].query.listType # "2"}

BareListing(r) ==
  /\ r.method = "GET" /\ r.query.listType = "absent"
  /\ ExtractKey(r.pathname) = EmptyStr

\* C8: an authenticated request with list-type=1, versions or uploads, or a
\* bare listing, is answered 501 and never forwarded as an object operation.
C8_UnsupportedListIs501 ==
  (/\ Verified /\ isValidSignature /\ req.query.listType # "2"
   /\ (req.query.listType = "1" \/ req.query.versions \/ req.query.uploads
         \/ BareListing(req)))
    => (ObjectOps = {} /\ (pc = "done" => (resp.origin = "local" /\ resp.status = 501)))

\* C9: a multipart-upload or versioning request is never forwarded to a
\* bucket, whatever its method.
C9_MultipartNotForwarded ==
  (/\ isValidSignature /\ req.query.listType # "2"
   /\ (req.query.uploads \/ req.query.partUpload \/ req.query.versions))
    => upstream = << >>

\* C10: a continuation token that does not encode a {bucket, key, position}
\* triple is answered 400.
C10_BadTokenIs400 ==
  (/\ pc = "done" /\ isValidSignature /\ req.method = "GET" /\ req.query.listType = "2"
   /\ req.query.token \in ForeignTokens
   /\ resp # Threw)
    => resp.status = 400

\* The most negative 32-bit value, assembled from the digest 80 00 00 00.
MinInt32Digest == <<128, 0, 0, 0>>

\* C11: pickBucket is total and in range: for every digest, the most negative
\* 32-bit value included, and for every key, the empty one included, the index
\* lies in 0..buckets.length-1 and the result is one of the buckets; the
\* result depends on the digest only.
C11_PickBucketInRange ==
  /\ unit.op = "pickBucket" =>
       /\ unit.index \in 0..(Len(buckets) - 1)
       /\ unit.bucket \in BucketSet
       /\ unit.bucket = buckets[unit.index + 1]
       /\ unit.bucket = BucketOfDigest(unit.hashArray)
  /\ \A k \in RoutedKeys : pickBucket(k) \in BucketSet

C11_Witness ==
  /\ unit.op = "pickBucket" /\ unit.hashArray = MinInt32Digest
  /\ unit.hashNumber < 0 /\ unit.hashNumber + 2147483647 = -1
  /\ unit.bucket = "aaaa"

\* C12: a listing is all or nothing: a 200 ListBucketResult is built only
\* when every bucket has answered its list request successfully, and once a
\* bucket has failed the call as a whole fails.
C12_ListAllOrAbort ==
  /\ resp.origin = "list" => \A b \in BucketSet : fragments[b].state = "ok"
  /\ (\E b \in BucketSet : fragments[b].state = "failed") => (pc = "done" /\ resp = Threw)

C12_Witness ==
  /\ pc = "done" /\ resp = Threw
  /\ fragments["aaaa"].state = "ok" /\ fragments["aaaa"].keys # << >>
  /\ fragments["bbbb"].state = "failed"

\* A ListObjectsV2 call, and whether its continuation token decodes.
IsListCall(r) == r.method = "GET" /\ r.query.listType = "2"
TokenDecodes(r) == r.query.token.kind = "absent" \/ ~DecodeToken(r.query.token).threw

\* Exactly one upstream list request to every bucket, and nothing else.
OnePerBucket(u) ==
  /\ Len(u) = Len(buckets)
  /\ \A b \in BucketSet : Cardinality({i \in 1..Len(u) : u[i].bucket = b}) = 1
  /\ \A i \in 1..Len(u) : u[i].method = "GET" /\ u[i].query.listType = "2"

\* Exactly one upstream request, to the bucket pickBucket returns for the key.
OneToPickedBucket(u, r) ==
  /\ Len(u) = 1
  /\ u[1].bucket = pickBucket(ExtractKey(r.pathname))
  /\ u[1].method = r.method

\* C13, as stated: every authenticated ListObjectsV2 request has issued exactly
\* one upstream list request to each bucket by the time it is answered, and
\* every authenticated object operation exactly one request to the bucket of
\* its key.
C13_ExactUpstreamCount ==
  (pc = "done" /\ isValidSignature) =>
    /\ IsListCall(req) => OnePerBucket(upstream)
    /\ Classify(req).kind = "object" => OneToPickedBucket(upstream, req)

\* C13, amended: an authenticated ListObjectsV2 request whose continuation
\* token decodes issues exactly one upstream list request to each bucket, and
\* one whose token does not decode issues none; an authenticated object
\* operation issues exactly one request, to the bucket of its key; nothing is
\* issued twice, a failed backend included.
C13_UpstreamCount ==
  /\ (pc = "done" /\ isValidSignature) =>
       /\ IsListCall(req) =>
            IF TokenDecodes(req) THEN OnePerBucket(upstream) ELSE upstream = << >>
       /\ Classify(req).kind = "object" => OneToPickedBucket(upstream, req)
  /\ pc = "awaitList" => OnePerBucket(upstream)
  /\ pc = "awaitObject" => OneToPickedBucket(upstream, req)

C13_Witness ==
  /\ pc = "done" /\ resp = Threw /\ OnePerBucket(upstream)
  /\ \E b \in BucketSet : fragments[b].state = "failed"

\* The answers the buckets gave to the object operation in flight.
Answers == {fragments[b].answer : b \in {x \in BucketSet : fragments[x].state = "answered"}}

\* C14: when the backend answers an object operation with a status that is
\* not a success, the client receives the same status, status text, headers
\* and body.
C14_BackendErrorRelayed ==
  pc = "done" =>
    \A answer \in Answers :
      ~IsOk(answer) =>
        /\ resp.status = answer.status
        /\ resp.statusText = answer.statusText
        /\ resp.headers = answer.headers
        /\ resp.body = answer.body

C14_Witness ==
  /\ pc = "done" /\ req.method = "GET" /\ resp.status = 404
  /\ resp.statusText = "Not Found" /\ resp.body = NoObject
  /\ \E answer \in Answers : answer.status = 404

\* The prefixes one bucket returned, and the prefixes of a merged response.
Returned(cps) == IF cps.kind = "absent" THEN {} ELSE {AsArray(cps)[i] : i \in 1..Len(AsArray(cps))}
MergedPrefixes(cps) == IF cps.kind = "absent" THEN << >> ELSE cps.items

\* C15: the CommonPrefixes of the merged response hold each prefix that some
\* bucket returned exactly once, in ascending order, and nothing else.
C15_CommonPrefixUnion ==
  unit.op = "mergeCommonPrefixes" =>
    LET out == MergedPrefixes(unit.CommonPrefixes)
    IN  /\ {out[i] : i \in 1..Len(out)} = UNION {Returned(unit.bucketResults[b]) : b \in BucketSet}
        /\ \A i, j \in 1..Len(out) : i < j => CodeUnitLess(out[i], out[j])

C15_Witness ==
  /\ unit.op = "mergeCommonPrefixes"
  /\ unit.bucketResults["aaaa"] = ParsedElements(<<Str_a \o SlashStr>>)
  /\ unit.bucketResults["bbbb"] = ParsedElements(<<Str_B \o SlashStr, Str_a \o SlashStr>>)
  /\ MergedPrefixes(unit.CommonPrefixes) = <<Str_B \o SlashStr, Str_a \o SlashStr>>

\* A path that names no object: '/', '/multiplex' or '/multiplex/'.
NamesNoKey(pathname) ==
  pathname \in {SlashStr, SlashStr \o myBucket, SlashStr \o myBucket \o SlashStr}

\* C16: an authenticated request whose path names no object key is never
\* forwarded to a bucket, whatever its method, and an object operation
\* (a method other than GET) on such a path is answered 400.
C16_MissingKeyIs400 ==
  (Verified /\ isValidSignature /\ NamesNoKey(req.pathname) /\ ~IsListCall(req)) =>
    /\ upstream = << >>
    /\ (pc = "done" /\ req.method # "GET") => resp = NoKeySpecified

\* C17: a ListObjectsV2 response carries a NextContinuationToken exactly when
\* its IsTruncated is true, whatever max-keys the client sent.
C17_TruncatedHasToken ==
  ListAnswered =>
    (resp.list.IsTruncated <=> resp.list.NextContinuationToken.kind # "absent")

\* C18: a request signed with the client-facing credential pair is accepted
\* whenever it is verified at or after the time it was signed, and a request
\* whose signature has a byte changed, or that was signed with another
\* secret, is rejected.
C18_SigV4RoundTrip ==
  Verified =>
    /\ (req.authKind = "valid" /\ req.amzDate <= verifiedAt) => isValidSignature
    /\ req.authKind \in {"flipped", "wrongsecret"} => ~isValidSignature

\* The reason a request fails verification: the first check it fails.
FailureReason(r, time) ==
  CASE AuthMissing(r) -> "missing"
    [] AuthNotSigV4(r) -> "notSigV4"
    [] AuthMalformed(r) -> "malformed"
    [] AuthOtherKey(r) -> "otherKey"
    [] AuthSignatureMismatch(r, time) -> "signature"
    [] OTHER -> "none"

\* C19: two requests that fail verification, for whatever reasons, receive
\* responses with the same status, status text, headers and body.
C19_RejectionsIndistinguishable ==
  unit.op = "rejectTwo" =>
    /\ unit.firstResp.status = 401
    /\ unit.firstResp.status = unit.secondResp.status
    /\ unit.firstResp.body = unit.secondResp.body
    /\ unit.firstResp.statusText = unit.secondResp.statusText
    /\ unit.firstResp.headers = unit.secondResp.headers

C19_Witness ==
  /\ unit.op = "rejectTwo"
  /\ FailureReason(unit.first, unit.time) = "malformed"
  /\ FailureReason(unit.second, unit.time) = "signature"
  /\ unit.firstResp = unit.secondResp

\* C20: verifySignature never throws to its caller: it returns a boolean,
\* and false when the header is missing, is not SigV4, fails the grammar or
\* names another access key, or when an exception is raised inside it.
C20_VerifyNeverThrows ==
  unit.op = "verifySignature" =>
    /\ ~unit.outcome.threw
    /\ unit.outcome.value \in BOOLEAN
    /\ (unit.attempt.threw \/ FailureReason(unit.request, unit.time) # "none")
         => unit.outcome.value = FALSE

C20_Witness ==
  /\ unit.op = "verifySignature"
  /\ AuthMalformed(unit.request) /\ unit.attempt.threw
  /\ unit.outcome = [threw |-> FALSE, value |-> FALSE]

\* The keys the buckets returned to the list call in flight.
MergedEntries == Concat([i \in 1..Len(buckets) |-> fragments[buckets[i]].keys])

\* C21: resume is strictly after the cursor: every key of the returned page
\* is strictly greater than the token's key when a continuation token is
\* supplied, and strictly greater than start-after when only start-after is;
\* and when no merged entry is greater than the cursor the response is an
\* empty page with IsTruncated=false, not an error.
C21_ResumeAfterCursor ==
  (ListAnswered /\ OwnToken(req.query) /\ HasCursor(req.query)) =>
    /\ \A i \in 1..Len(resp.list.Contents) :
         CodeUnitLess(Cursor(req.query), resp.list.Contents[i])
    /\ (\A i \in 1..Len(MergedEntries) :
          ~CodeUnitLess(Cursor(req.query), MergedEntries[i]))
         => (resp.status = 200 /\ resp.list.Contents = << >> /\ ~resp.list.IsTruncated)

\* C22: the returned page is the slice [position, position+maxKeys) of the
\* merged sorted entries, so Contents never holds more than MaxKeys entries,
\* and KeyCount is the number of Contents entries, for every max-keys the
\* client sends: 0, negative and non-numeric values included (a max-keys that
\* is negative or no number bounds the page by 0: an empty page).
C22_PageBound ==
  (ListAnswered /\ OwnToken(req.query)) =>
    LET maxKeys == resp.list.MaxKeys
        bound == IF maxKeys.nan \/ maxKeys.n < 0 THEN 0 ELSE maxKeys.n
        allObjects == SortByLocaleCompare(MergedEntries)
        parsedToken == IF req.query.token.kind = "absent" THEN NullToken
                       ELSE req.query.token.value
        position == StartIndex(allObjects, req.query, parsedToken)
        last == IF position + bound > Len(allObjects) THEN Len(allObjects)
                ELSE position + bound
    IN  /\ resp.list.Contents = SubSeq(allObjects, position + 1, last)
        /\ Len(resp.list.Contents) <= bound
        /\ resp.list.KeyCount = Len(resp.list.Contents)

\* C23: the position stored in a NextContinuationToken is the absolute
\* position in the global merged ordering: after any number of consecutive
\* pages it is the number of keys emitted on all pages so far; and the
\* token's bucket is pickBucket of its key.
C23_TokenPosition ==
  session.state # "none" =>
    \A i \in 1..Len(session.tokens) :
      session.tokens[i].kind # "absent" =>
        /\ session.tokens[i].value.position = Len(Concat(SubSeq(session.pages, 1, i)))
        /\ session.tokens[i].value.bucket = pickBucket(session.tokens[i].value.key)

\* C24: a forwarded request carries no edge-hop or client authentication
\* material: no inbound header named 'cf-...', 'x-forwarded-for', 'x-real-ip'
\* or 'host' is present with its inbound value, the host header is the
\* backend host, the content-hash header is the digest of the forwarded
\* body, and the Authorization header is the one made with the backend
\* credential pair for service 's3' and region 'auto': neither the client's
\* Authorization value nor the client-facing secret goes to the backend.
C24_OutboundHeaders ==
  \A i \in 1..Len(upstream) :
    LET out == upstream[i].headers
        inbound == InboundHeaders(req)
        edgeHop == {"cf-connecting-ip", "cf-ray", "x-forwarded-for", "x-real-ip", "host"}
        authorization == out["authorization"]
    IN  /\ \A k \in edgeHop : k \in DOMAIN out => out[k] # inbound[k]
        /\ out["host"] = "account.r2.cloudflarestorage.com"
        /\ out["x-amz-content-sha256"] = [sha256 |-> upstream[i].body]
        /\ authorization = SignedHeader(R2_KEY, R2_SECRET, out["x-amz-date"],
                                        upstream[i].method, upstream[i].path,
                                        upstream[i].query, upstream[i].body)
        /\ authorization # inbound["authorization"]
        /\ authorization.signature.secret # CLIENT_SECRET_KEY
        /\ authorization.signature.region = "auto"
        /\ authorization.signature.service = "s3"

C24_Witness ==
  /\ pc = "awaitObject" /\ req.method = "PUT" /\ req.body = "hello"
  /\ InboundHeaders(req)["authorization"].credential[1] = CLIENT_ACCESS_KEY
  /\ "cf-ray" \notin DOMAIN upstream[1].headers
  /\ upstream[1].headers["user-agent"] = "aws-sdk-js"
  /\ upstream[1].headers["authorization"].credential[1] = R2_KEY

\* C25: join before merge: within one ListObjectsV2 call the request to every
\* bucket has been issued before the answer to any of them is received, and
\* the merged response is built only when the fragment of every bucket has
\* been received; no response is produced while a bucket's request is still
\* outstanding, unless the call has failed.
C25_JoinBeforeMerge ==
  (isValidSignature /\ IsListCall(req)) =>
    /\ (\E b \in BucketSet : fragments[b].state # "none") =>
         \A b \in BucketSet : \E i \in 1..Len(upstream) : upstream[i].bucket = b
    /\ resp.origin = "list" => \A b \in BucketSet : fragments[b].state # "pending"
    /\ (resp # NoResponse /\ \E b \in BucketSet : fragments[b].state = "pending") =>
         (resp = Threw /\ \E b \in BucketSet : fragments[b].state = "failed")

C25_Witness ==
  /\ pc = "awaitList" /\ resp = NoResponse
  /\ fragments["bbbb"].state = "ok" /\ fragments["bbbb"].keys # << >>
  /\ fragments["aaaa"].state = "pending"
  /\ \E i \in 1..Len(upstream) : upstream[i].bucket = "aaaa"

\* C26: parseAuthorizationHeader accepts exactly the fixed grammar
\* 'AWS4-HMAC-SHA256 Credential=<key>/<date>/<region>/<service>/aws4_request,
\* SignedHeaders=<h1;h2;...>, Signature=<hex>': it throws for every other
\* header, those included whose credential scope has fewer or more than five
\* parts, whose termination string is not 'aws4_request' or whose signature
\* is not hexadecimal; on success the fields returned are the components of
\* the header.
C26_ParseExactGrammar ==
  unit.op = "parseAuthorizationHeader" =>
    LET authHeader == unit.authHeader
        inGrammar == /\ authHeader.scheme = "AWS4-HMAC-SHA256" /\ authHeader.threeFields
                     /\ Len(authHeader.credential) = 5
                     /\ authHeader.credential[5] = "aws4_request"
                     /\ authHeader.signature.hex
    IN  /\ unit.parsed.threw <=> ~inGrammar
        /\ ~unit.parsed.threw =>
             /\ <<unit.parsed.accessKeyId, unit.parsed.dateStamp, unit.parsed.region,
                  unit.parsed.service, unit.parsed.terminationString>> = authHeader.credential
             /\ unit.parsed.signature = authHeader.signature

\* C27: the continuation token round-trips: for every triple {bucket, key,
\* position} the orchestrator can produce, for every key a bucket can hold
\* (keys with characters outside the single-byte range included), encoding
\* the token succeeds and decoding it on the next call yields the same triple.
C27_TokenRoundTrip ==
  unit.op = "tokenRoundTrip" =>
    /\ unit.token.kind # "threw"
    /\ ~unit.decoded.threw
    /\ unit.decoded.value.bucket = unit.bucket
    /\ unit.decoded.value.key = unit.key
    /\ unit.decoded.value.position = unit.position

\* C28: placement: after any sequence of authenticated PUT, GET and DELETE
\* operations through the proxy on buckets that were empty, every object with
\* key k is in the bucket pickBucket(k) and in no other, whether the client
\* addressed it as '/k' or as '/multiplex/k'; so no key occurs twice in the
\* merged entries of a list call.
C28_Placement ==
  /\ \A b \in BucketSet, k \in StoreKeys : store[b][k] # NoObject => b = pickBucket(k)
  /\ \A i, j \in 1..Len(MergedEntries) : i < j => MergedEntries[i] # MergedEntries[j]

C28_Witness ==
  /\ pc = "done" /\ req.method = "PUT"
  /\ req.pathname = SlashStr \o myBucket \o SlashStr \o Str_B
  /\ store["bbbb"][Str_B] = "hello" /\ store["aaaa"][Str_B] = NoObject
  /\ store["aaaa"][Str_a] # NoObject /\ store["aaaa"][myBucket] # NoObject

====
